---- MODULE Spec2Model ----
(***************************************************************************)
(* Retrieval-and-orchestration core of the Midwinter manual search:        *)
(*   - the asynchronous job tracker of the Flask API                       *)
(*     (api/search_api_updated.py: search_start, run_search_job,           *)
(*     search_status over the shared dict search_jobs),                    *)
(*   - the bounded tool-use loop (search_fast, search, run_search_job),    *)
(*   - the two tool dispatchers (execute_tool, call_tool),                 *)
(*   - the retrieval tiers (search_manual_db, search_manual_query),        *)
(*   - the relationship graph (can_recruit_query).                         *)
(* Each part has its own specification over the same variables; the parts  *)
(* a specification does not exercise stay at their initial value.          *)
(***************************************************************************)
EXTENDS Integers, Sequences, FiniteSets, TLC

\* ------------------------------------------------------------------ bounds
\* Number of /api/search/start submissions accepted in one run.
MaxSubmits == 2
\* Number of concurrent HTTP request handlers (Flask serves threaded).
NumClients == 2
\* Size of the modelled id space (str(uuid.uuid4())[:8] has 16^8 values).
NumJobIds == 2
\* Largest number of tool_use blocks in one response.
MaxCalls == 2
\* Cap on the exchanges of a loop that has no ceiling of its own.
MaxExchanges == 9
MaxText == 4
\* Largest number of rows of the relationship table.
MaxEdges == 3
\* Number of pages of the manual.
NumPages == 16

\* ------------------------------------------------------- program constants
\* search_fast: "while ... and rounds < 2"
FastRounds == 2
\* search: "while ... and rounds < 5"
StandardRounds == 5
\* run_search_job: "while ... and rounds < 6"
BackgroundRounds == 6
StreamlitRounds == 5

JobIds == 1..NumJobIds
Workers == 1..MaxSubmits
Clients == 1..NumClients

NoPayload == [kind |-> "none", by |-> 0, msg |-> ""]
\* The 'result' dict the worker w stores (it carries w's own query).
ResultOf(w) == [kind |-> "result", by |-> w, msg |-> ""]
\* The 'error' string the worker w stores.
ErrorOf(w, m) == [kind |-> "error", by |-> w, msg |-> m]

\* A key that is not in the dict search_jobs.
Absent == [status |-> "absent", payload |-> NoPayload]

VARIABLES
    search_jobs,  \* the module-level dict: job id -> job record (or Absent)
    workers,      \* the threads started by search_start, one per submission
    clients,      \* the HTTP request handlers: position, locals, response
    consumed,     \* history: ids whose terminal record a status call returned
    profile,      \* which caller runs the loop: "fast", "standard", "background"
    lpc,          \* the loop's position: "off", "start", "loop", "done"
    rounds,       \* the local counter 'rounds'
    response,     \* the local 'response': the service's latest answer
    messages,     \* the local list 'messages': the conversation
    tool_results, \* the local list 'tool_results' of the latest pass
    outcome,      \* what the caller gets: the job record or the HTTP answer
    exchanges,    \* history: calls of client.messages.create made so far
    tool_rounds,  \* history: passes that dispatched the requested tools
    all_tool_use, \* history: every answer so far to a request offering tools
                  \* asked for a tool, and no request failed
    tool_call,    \* the call handed to a dispatcher: server, name, input keys
    tool_out,     \* what the dispatcher did with it
    character_relationships, \* the rows of the relationship table
    db_phase,     \* "building" while the table is filled, then "serving"
    recruit_call, \* the relationship query made: its name and its texts
    recruit_out,  \* what that query returned
    manual_pages, \* the manual: page number -> the page's content
    bm25_desc,    \* whether rank grows against the page number
    search_call,  \* the search made: which server, which query
    search_out,   \* what that search returned
    final_text,   \* the text of the final answer, as a sequence of tokens
    result        \* the payload built from it: 'results' and 'raw_response'

jobVars == <<search_jobs, workers, clients, consumed>>
loopVars == <<profile, lpc, rounds, response, messages, tool_results, outcome,
              exchanges, tool_rounds, all_tool_use>>
toolVars == <<tool_call, tool_out>>
recruitVars == <<character_relationships, db_phase, recruit_call, recruit_out>>
searchVars == <<manual_pages, bm25_desc, search_call, search_out>>
parseVars == <<final_text, result>>
dataVars == <<recruitVars, searchVars, parseVars>>
vars == <<jobVars, loopVars, toolVars, dataVars>>

\* ------------------------------------------------------------ dispatcher
\* The fields a tool's input_schema lists under "required" (TOOLS).
Required(name) ==
    CASE name = "search_manual" -> <<"query">>
      [] name = "show_page" -> <<"page_number">>
      [] name = "filter_by_section" -> <<"section", "query">>
      [] name = "quick_search" -> <<"query">>
      [] OTHER -> <<>>

\* The names execute_tool recognises.
ApiTools == {"search_manual", "show_page", "filter_by_section", "quick_search"}

\* input_data[k] for each k in the order execute_tool's branch evaluates
\* them: the first key that is not in the dict raises KeyError(k).
RECURSIVE FirstMissing(_, _)
FirstMissing(keys, input) ==
    IF keys = <<>> THEN "none"
    ELSE IF Head(keys) \notin input THEN Head(keys)
    ELSE FirstMissing(Tail(keys), input)

\* What one call of the dispatcher does: it raises, or it returns a text;
\* op is the retrieval operation it invoked ("none" when it invoked none).
\* defaults are the parameters the operation got a default value for.
ToolRaise(k) == [raised |-> TRUE, op |-> "none", text |-> <<"KeyError", k>>, defaults |-> {}]
ToolText(o, t) == [raised |-> FALSE, op |-> o, text |-> t, defaults |-> {}]

\* A dispatcher whose last branch raises instead of returning a text.
execute_tool_strict(name, input) ==
    IF name \in ApiTools /\ FirstMissing(Required(name), input) = "none"
    THEN ToolText(name, <<"output of ", name>>)
    ELSE ToolRaise(name)

\* execute_tool(name, input_data); input is the set of keys of input_data.
execute_tool(name, input) ==
    IF name = "search_manual" THEN
        IF "query" \in input THEN ToolText("search_manual_db", <<"output of ", "search_manual_db">>)
        ELSE ToolRaise("query")
    ELSE IF name = "show_page" THEN
        IF "page_number" \in input THEN ToolText("show_page_db", <<"output of ", "show_page_db">>)
        ELSE ToolRaise("page_number")
    ELSE IF name = "filter_by_section" THEN
        IF FirstMissing(<<"section", "query">>, input) = "none"
        THEN ToolText("filter_by_section_db", <<"output of ", "filter_by_section_db">>)
        ELSE ToolRaise(FirstMissing(<<"section", "query">>, input))
    ELSE IF name = "quick_search" THEN
        IF "query" \in input THEN ToolText("quick_search_db", <<"output of ", "quick_search_db">>)
        ELSE ToolRaise("query")
    ELSE ToolText("none", <<"Unknown tool: ", name>>)

\* The fields each MCP tool's inputSchema lists under "required" (list_tools).
McpRequired(name) ==
    CASE name \in {"quick_search", "search_manual"} -> <<"query">>
      [] name = "filter_by_section" -> <<"section", "query">>
      [] name = "show_page" -> <<"page_number">>
      [] name = "can_recruit" -> <<"recruiter", "target">>
      [] name = "who_can_recruit" -> <<"target">>
      [] name \in {"get_enemies", "get_friends"} -> <<"character">>
      [] OTHER -> <<>>

\* The names call_tool recognises.
McpTools ==
    {"quick_search", "search_manual", "filter_by_section", "show_page",
     "list_sections", "list_entities", "can_recruit", "who_can_recruit",
     "get_enemies", "get_friends"}
McpArgNames == {"query", "section", "page_number", "recruiter", "target", "character"}

\* x = arguments.get(k, default) for each parameter, then op(x, ...): a key
\* that is not in the dict is replaced by its default ("" or 0).
McpInvoke(o, params, input) ==
    [raised |-> FALSE, op |-> o, text |-> <<"output of ", o>>,
     defaults |-> {params[i] : i \in 1..Len(params)} \ input]

\* call_tool(name, arguments); input is the set of keys of arguments.
call_tool(name, input) ==
    IF name = "quick_search" THEN McpInvoke("quick_search_query", <<"query">>, input)
    ELSE IF name = "search_manual" THEN McpInvoke("search_manual_query", <<"query">>, input)
    ELSE IF name = "filter_by_section"
        THEN McpInvoke("filter_by_section_query", <<"section", "query">>, input)
    ELSE IF name = "show_page" THEN McpInvoke("show_page_query", <<"page_number">>, input)
    ELSE IF name = "list_sections" THEN McpInvoke("list_sections_query", <<>>, input)
    ELSE IF name = "list_entities" THEN McpInvoke("list_entities_query", <<>>, input)
    ELSE IF name = "can_recruit"
        THEN McpInvoke("can_recruit_query", <<"recruiter", "target">>, input)
    ELSE IF name = "who_can_recruit" THEN McpInvoke("who_can_recruit_query", <<"target">>, input)
    ELSE IF name = "get_enemies" THEN McpInvoke("get_enemies_query", <<"character">>, input)
    ELSE IF name = "get_friends" THEN McpInvoke("get_friends_query", <<"character">>, input)
    ELSE ToolText("none", <<"Unknown tool: ", name>>)

\* One tool_use block of a response: the tool's name and the keys of its input.
ToolNames == ApiTools \cup {"get_weather"}
ArgNames == {"query", "page_number", "section"}
ToolCalls == [name : ToolNames, input : SUBSET ArgNames]

\* ------------------------------------------------------------ job tracker
Record(s, p) == [status |-> s, payload |-> p]
Terminal(r) == r.status \in {"complete", "error"}

Response(c, s, p) == [code |-> c, status |-> s, payload |-> p]
NoResponse == Response(0, "", NoPayload)

IdleWorker ==
    [pc |-> "unborn", job_id |-> 0]
IdleClient ==
    [pc |-> "idle", job_id |-> 0, job |-> Absent, resp |-> NoResponse]

JobInit ==
    /\ search_jobs = [id \in JobIds |-> Absent]
    /\ workers = [w \in Workers |-> IdleWorker]
    /\ clients = [c \in Clients |-> IdleClient]
    /\ consumed = {}

Started == {w \in Workers : workers[w].pc # "unborn"}

\* search_start: POST /api/search/start. The id is the first 8 hex digits
\* of a random uuid4: any value of the id space, with no look at the keys
\* already in search_jobs.
search_start(c) ==
    /\ clients[c].pc \in {"idle", "done"}
    /\ \E query \in {"", "q"} :
        IF query = "" THEN
            /\ clients' = [clients EXCEPT ![c] =
                  [IdleClient EXCEPT !.pc = "done",
                      !.resp = Response(400, "Query parameter required", NoPayload)]]
            /\ UNCHANGED <<search_jobs, workers, consumed, loopVars, toolVars, dataVars>>
        ELSE
            /\ Cardinality(Started) < MaxSubmits
            /\ \E job_id \in JobIds :
                LET w == Cardinality(Started) + 1 IN
                /\ search_jobs' = [search_jobs EXCEPT ![job_id] = Record("pending", NoPayload)]
                /\ workers' = [workers EXCEPT ![w] =
                      [IdleWorker EXCEPT !.pc = "start", !.job_id = job_id]]
                /\ clients' = [clients EXCEPT ![c] =
                      [IdleClient EXCEPT !.pc = "done", !.job_id = job_id,
                          !.resp = Response(200, "pending", NoPayload)]]
                /\ UNCHANGED <<consumed, loopVars, toolVars, dataVars>>

\* The worker's "except Exception as e: search_jobs[job_id] = {...error...}".
WriteError(w, m) ==
    /\ search_jobs' = [search_jobs EXCEPT ![workers[w].job_id] = Record("error", ErrorOf(w, m))]
    /\ workers' = [workers EXCEPT ![w].pc = "done"]

\* run_search_job, line 518: search_jobs[job_id]['status'] = 'running'
\* (an item assignment on the record now under the key; KeyError when the
\* key is gone, caught by the function's except clause).
run_search_job_start(w) ==
    /\ workers[w].pc = "start"
    /\ IF search_jobs[workers[w].job_id] = Absent
       THEN WriteError(w, "KeyError")
       ELSE /\ search_jobs' = [search_jobs EXCEPT ![workers[w].job_id].status = "running"]
            /\ workers' = [workers EXCEPT ![w].pc = "get_client"]
    /\ UNCHANGED <<clients, consumed, loopVars, toolVars, dataVars>>

\* run_search_job, lines 520-523: get_client; without a key the job fails.
run_search_job_client(w) ==
    /\ workers[w].pc = "get_client"
    /\ \E configured \in BOOLEAN :
        IF ~configured THEN WriteError(w, "API not configured")
        ELSE /\ workers' = [workers EXCEPT ![w].pc = "loop"]
             /\ UNCHANGED search_jobs
    /\ UNCHANGED <<clients, consumed, loopVars, toolVars, dataVars>>

\* How lines 525-616 can end: the result is stored, or an exception of an
\* exchange ("upstream") or of a tool call ("KeyError") reaches the except
\* clause. The loop itself is the specification SpecLoop.
LoopEndings == {"complete", "upstream", "KeyError"}

\* run_search_job, lines 525-616: the conversation with the service, which
\* touches only locals, and the one write to search_jobs that ends it.
run_search_job_loop(w) ==
    /\ workers[w].pc = "loop"
    /\ \E ending \in LoopEndings :
        IF ending = "complete"
        THEN /\ search_jobs' = [search_jobs EXCEPT
                    ![workers[w].job_id] = Record("complete", ResultOf(w))]
             /\ workers' = [workers EXCEPT ![w].pc = "done"]
        ELSE WriteError(w, ending)
    /\ UNCHANGED <<clients, consumed, loopVars, toolVars, dataVars>>

\* run_search_job, lines 527-533 (and 551-557, 574-579):
\* client.messages.create(...) is called with no timeout=, and get_client
\* builds the client with none: when the service sends nothing the call
\* does not return and the thread stays in it.
run_search_job_blocked(w) ==
    /\ workers[w].pc = "loop"
    /\ workers' = [workers EXCEPT ![w].pc = "blocked"]
    /\ UNCHANGED <<search_jobs, clients, consumed, loopVars, toolVars, dataVars>>

\* The steps of worker w.
run_search_job(w) ==
    \/ run_search_job_start(w)
    \/ run_search_job_client(w)
    \/ run_search_job_loop(w)
    \/ run_search_job_blocked(w)

\* search_status, line 641: "if job_id not in search_jobs".
search_status_check(c) ==
    /\ clients[c].pc \in {"idle", "done"}
    /\ \E job_id \in JobIds :
        clients' = [clients EXCEPT ![c] =
            IF search_jobs[job_id] = Absent
            THEN [IdleClient EXCEPT !.pc = "done", !.job_id = job_id,
                     !.resp = Response(404, "Job not found", NoPayload)]
            ELSE [IdleClient EXCEPT !.pc = "lookup", !.job_id = job_id]]
    /\ UNCHANGED <<search_jobs, workers, consumed, loopVars, toolVars, dataVars>>

\* An exception that leaves the view function: Flask answers 500.
ServerError(c) ==
    clients' = [clients EXCEPT ![c].pc = "done",
                   ![c].resp = Response(500, "KeyError", NoPayload)]

\* search_status, lines 644-655: job = search_jobs[job_id], then the tests of
\* job['status']; a job that is not terminal is answered here.
search_status_lookup(c) ==
    /\ clients[c].pc = "lookup"
    /\ LET job == search_jobs[clients[c].job_id] IN
        IF job = Absent THEN ServerError(c)
        ELSE IF Terminal(job)
        THEN clients' = [clients EXCEPT ![c].pc = "del", ![c].job = job]
        ELSE clients' = [clients EXCEPT ![c].pc = "done",
                            ![c].resp = Response(200, job.status, NoPayload)]
    /\ UNCHANGED <<search_jobs, workers, consumed, loopVars, toolVars, dataVars>>

\* search_status, lines 647-649 and 651-653: del search_jobs[job_id], return.
search_status_del(c) ==
    /\ clients[c].pc = "del"
    /\ IF search_jobs[clients[c].job_id] = Absent
       THEN ServerError(c) /\ UNCHANGED <<search_jobs, consumed>>
       ELSE /\ search_jobs' = [search_jobs EXCEPT ![clients[c].job_id] = Absent]
            /\ clients' = [clients EXCEPT ![c].pc = "done",
                   ![c].resp = Response(200, clients[c].job.status, clients[c].job.payload)]
            /\ consumed' = consumed \cup {clients[c].job_id}
    /\ UNCHANGED <<workers, loopVars, toolVars, dataVars>>

\* ------------------------------------------------------ orchestration loop
Profiles == {"fast", "standard", "background"}
\* The two applications' ai_search: the Streamlit page and the desktop GUI.
AppProfiles == {"streamlit", "gui"}
AllProfiles == Profiles \cup AppProfiles

\* The bound of each caller's while loop.
Ceiling(p) ==
    CASE p = "fast" -> FastRounds
      [] p = "standard" -> StandardRounds
      [] p = "background" -> BackgroundRounds
      [] p = "streamlit" -> StreamlitRounds

\* The GUI's loop is "while response.stop_reason == "tool_use":", no counter.
HasCeiling(p) == p # "gui"

\* Only run_search_job has the block "Force final answer if still requesting
\* tools" (lines 561-579); search_fast and search go from the while loop
\* straight to the text extraction.
ForcesFinal(p) == p = "background"

\* A loop that tests rounds <= N makes one pass too many.
LoopContinuesOffByOne(stop_reason, n, ceiling) == stop_reason = "tool_use" /\ n <= ceiling

\* The while condition: response.stop_reason == "tool_use" and rounds < N.
LoopContinues(stop_reason, n, ceiling) == stop_reason = "tool_use" /\ n < ceiling

\* The while condition of profile p.
Continues(p, stop_reason, n) ==
    IF HasCeiling(p) THEN LoopContinues(stop_reason, n, Ceiling(p))
    ELSE stop_reason = "tool_use"

\* The if/elif chain in the two ai_search loops: three names, each reading
\* its argument with tool_input[key]; any other name gives the text.
ai_search_tool(name, input) ==
    IF name = "search_manual"
        THEN IF "query" \in input THEN ToolText("search_manual", <<"output of ", "search_manual">>)
             ELSE ToolRaise("query")
    ELSE IF name = "quick_search"
        THEN IF "query" \in input THEN ToolText("quick_search", <<"output of ", "quick_search">>)
             ELSE ToolRaise("query")
    ELSE IF name = "show_page"
        THEN IF "page_number" \in input
             THEN ToolText("show_page", <<"output of ", "show_page">>)
             ELSE ToolRaise("page_number")
    ELSE ToolText("none", <<"Unknown tool: ", name>>)

\* The dispatcher the running loop calls.
Dispatch(name, input) ==
    IF profile \in AppProfiles THEN ai_search_tool(name, input) ELSE execute_tool(name, input)

\* The tool calls the service asks for in the loop: a well-formed call of a
\* registered tool, a call of a name that is in no registry, and a call of
\* a registered tool without its required argument.
LoopCalls ==
    { [name |-> "search_manual", input |-> {"query"}],
      [name |-> "get_weather", input |-> {}],
      [name |-> "show_page", input |-> {}] }
LoopContents == UNION {[1..n -> LoopCalls] : n \in 1..MaxCalls}

NoResponseYet == [n |-> 0, stop_reason |-> "", content |-> <<>>, tools_offered |-> FALSE]

\* What client.messages.create(...) can do as the n-th exchange: answer asking
\* for tools (only when tools= was passed), answer with text, or raise (an
\* API error, a timeout of the round trip).
ServiceAnswers(n, tools_offered) ==
    (IF tools_offered
     THEN {[n |-> n, stop_reason |-> "tool_use", content |-> c, tools_offered |-> TRUE] :
              c \in LoopContents}
     ELSE {})
    \cup {[n |-> n, stop_reason |-> "end_turn", content |-> <<>>, tools_offered |-> tools_offered],
          [n |-> n, stop_reason |-> "raise", content |-> <<>>, tools_offered |-> tools_offered]}

\* The conversation keeps of every block its type and its id: the i-th
\* tool_use block of the n-th response has the id <<n, i>>. The name and the
\* input of a call are those of response, the text of a result is that of
\* tool_results.
AssistantMessage(r) ==
    [role |-> "assistant",
     content |-> [i \in 1..Len(r.content) |-> [type |-> "tool_use", id |-> <<r.n, i>>]]]

\* The user message without the first of its blocks.
UserMessageDropFirst(results) ==
    [role |-> "user",
     content |-> [i \in 1..(Len(results) - 1) |->
                    IF results[i + 1].type = "text" THEN results[i + 1]
                    ELSE [type |-> results[i + 1].type,
                          tool_use_id |-> results[i + 1].tool_use_id]]]

\* {"role": "user", "content": tool_results}
UserMessage(results) ==
    [role |-> "user",
     content |-> [i \in 1..Len(results) |->
                    IF results[i].type = "text" THEN results[i]
                    ELSE [type |-> results[i].type, tool_use_id |-> results[i].tool_use_id]]]

\* "for block in response.content: ... tool_results.append({...})": one
\* tool_result per tool_use block, in the order of the blocks, up to the
\* first call that raises.
\* The results put in front of the list instead of behind it.
RECURSIVE CollectResultsReversed(_, _, _)
CollectResultsReversed(r, i, acc) ==
    IF i > Len(r.content) THEN acc
    ELSE LET res == Dispatch(r.content[i].name, r.content[i].input) IN
         IF res.raised
         THEN Append(acc, [type |-> "raise", tool_use_id |-> <<r.n, i>>,
                           name |-> r.content[i].name, content |-> res])
         ELSE CollectResultsReversed(r, i + 1,
                  <<[type |-> "tool_result", tool_use_id |-> <<r.n, i>>,
                     name |-> r.content[i].name, content |-> res]>> \o acc)

RECURSIVE CollectResults(_, _, _)
CollectResults(r, i, acc) ==
    IF i > Len(r.content) THEN acc
    ELSE LET res == Dispatch(r.content[i].name, r.content[i].input) IN
         IF res.raised
         THEN Append(acc, [type |-> "raise", tool_use_id |-> <<r.n, i>>,
                           name |-> r.content[i].name, content |-> res])
         ELSE CollectResults(r, i + 1,
                  Append(acc, [type |-> "tool_result", tool_use_id |-> <<r.n, i>>,
                               name |-> r.content[i].name, content |-> res]))

Raised(results) == \E i \in 1..Len(results) : results[i].type = "raise"

FinalPrompt == [type |-> "text", text |-> "Now provide your final answer based on all search results."]

NoOutcome == [status |-> "none", answer_from |-> NoResponseYet, msg |-> ""]
\* The except clause: the job record {'status': 'error', 'error': str(e)} of
\* run_search_job, the 500 answer {'error': str(e)} of search_fast and search.
Failed(m) == [status |-> "error", answer_from |-> NoResponseYet, msg |-> m]
\* The text extraction: the answer is the text blocks of the last response.
Answered(r) == [status |-> "complete", answer_from |-> r, msg |-> ""]

LoopOff ==
    /\ profile = "none" /\ lpc = "off" /\ rounds = 0
    /\ response = NoResponseYet /\ messages = <<>> /\ tool_results = <<>>
    /\ outcome = NoOutcome /\ exchanges = 0 /\ tool_rounds = 0
    /\ all_tool_use = TRUE

LoopInit ==
    /\ profile \in Profiles /\ lpc = "start" /\ rounds = 0
    /\ response = NoResponseYet /\ messages = <<>> /\ tool_results = <<>>
    /\ outcome = NoOutcome /\ exchanges = 0 /\ tool_rounds = 0
    /\ all_tool_use = TRUE

\* messages = [{"role": "user", "content": query}] and the first exchange
\* (search_fast 359-367, search 426-434, run_search_job 525-533).
loop_first ==
    /\ lpc = "start"
    /\ messages' = <<[role |-> "user", content |-> <<[type |-> "text", text |-> "query"]>>]>>
    /\ exchanges' = exchanges + 1
    /\ \E a \in ServiceAnswers(exchanges + 1, TRUE) :
        /\ all_tool_use' = (a.stop_reason = "tool_use")
        /\ IF a.stop_reason = "raise"
           THEN lpc' = "done" /\ outcome' = Failed("upstream") /\ UNCHANGED response
           ELSE lpc' = "loop" /\ response' = a /\ UNCHANGED outcome
    /\ UNCHANGED <<profile, rounds, tool_results, tool_rounds, jobVars, toolVars, dataVars>>

\* One pass of the while loop (search_fast 371-393, search 438-460,
\* run_search_job 537-559).
loop_round ==
    /\ lpc = "loop"
    /\ exchanges < MaxExchanges
    /\ Continues(profile, response.stop_reason, rounds)
    /\ tool_rounds' = tool_rounds + 1
    /\ LET results == CollectResults(response, 1, <<>>) IN
        /\ tool_results' = results
        /\ IF Raised(results)
           THEN /\ messages' = Append(messages, AssistantMessage(response))
                /\ lpc' = "done" /\ outcome' = Failed("KeyError")
                /\ UNCHANGED <<response, rounds, exchanges, all_tool_use>>
           ELSE /\ messages' = messages \o <<AssistantMessage(response), UserMessage(results)>>
                /\ exchanges' = exchanges + 1
                /\ \E a \in ServiceAnswers(exchanges + 1, TRUE) :
                    /\ all_tool_use' = (all_tool_use /\ a.stop_reason = "tool_use")
                    /\ IF a.stop_reason = "raise"
                       THEN /\ lpc' = "done" /\ outcome' = Failed("upstream")
                            /\ UNCHANGED <<response, rounds>>
                       ELSE /\ response' = a /\ rounds' = rounds + 1
                            /\ UNCHANGED <<lpc, outcome>>
    /\ UNCHANGED <<profile, jobVars, toolVars, dataVars>>

\* run_search_job 561-579: after the loop the response still asks for tools:
\* run them once more and ask again without tools=.
loop_force ==
    /\ lpc = "loop"
    /\ ~Continues(profile, response.stop_reason, rounds)
    /\ ForcesFinal(profile) /\ response.stop_reason = "tool_use"
    /\ tool_rounds' = tool_rounds + 1
    /\ LET results == CollectResults(response, 1, <<>>) IN
        /\ tool_results' = results
        /\ IF Raised(results)
           THEN /\ messages' = Append(messages, AssistantMessage(response))
                /\ lpc' = "done" /\ outcome' = Failed("KeyError")
                /\ UNCHANGED <<response, exchanges, all_tool_use>>
           ELSE /\ messages' = messages \o <<AssistantMessage(response),
                                               UserMessage(Append(results, FinalPrompt))>>
                /\ exchanges' = exchanges + 1
                /\ \E a \in ServiceAnswers(exchanges + 1, FALSE) :
                    /\ all_tool_use' = (all_tool_use /\ a.stop_reason # "raise")
                    /\ IF a.stop_reason = "raise"
                       THEN /\ lpc' = "done" /\ outcome' = Failed("upstream")
                            /\ UNCHANGED response
                       ELSE /\ response' = a
                            /\ UNCHANGED <<lpc, outcome>>
    /\ UNCHANGED <<profile, rounds, jobVars, toolVars, dataVars>>

\* The text extraction and the answer (search_fast 395-406, search 462-491,
\* run_search_job 581-613).
loop_finish ==
    /\ lpc = "loop"
    /\ ~Continues(profile, response.stop_reason, rounds)
    /\ ~(ForcesFinal(profile) /\ response.stop_reason = "tool_use")
    /\ lpc' = "done"
    /\ outcome' = Answered(response)
    /\ UNCHANGED <<profile, rounds, response, messages, tool_results, exchanges,
                   tool_rounds, all_tool_use, jobVars, toolVars, dataVars>>

\* ------------------------------------------------------------- dispatchers
NoCall == [server |-> "none", name |-> "", input |-> {}]
NoOutput == [raised |-> FALSE, op |-> "none", text |-> <<>>, defaults |-> {}]
ToolsOff == tool_call = NoCall /\ tool_out = NoOutput

\* The Flask API's dispatcher applied to one call.
api_dispatch ==
    /\ \E call \in ToolCalls :
        /\ tool_call' = [server |-> "api", name |-> call.name, input |-> call.input]
        /\ tool_out' = execute_tool(call.name, call.input)
    /\ UNCHANGED <<jobVars, loopVars, dataVars>>

\* The MCP server's dispatcher applied to one call.
mcp_dispatch ==
    /\ \E name \in McpTools \cup {"get_weather"}, input \in SUBSET McpArgNames :
        /\ tool_call' = [server |-> "mcp", name |-> name, input |-> input]
        /\ tool_out' = call_tool(name, input)
    /\ UNCHANGED <<jobVars, loopVars, dataVars>>

\* ------------------------------------------------------ relationship graph
\* A name is the sequence of its words, and so is a text; the word "%" of a
\* text is the wildcard of LIKE, standing for any run of words.
characters ==
    {<<"Captain", "John", "Stark">>,
     <<"Constable", "Harvey", "Pringle">>,
     <<"Constable", "Gordon", "Macleod">>}
\* "Stark" | "Constable" | "Nobody" | "Constable % Pringle"
NameTexts == {<<"Stark">>, <<"Constable">>, <<"Nobody">>, <<"Constable", "%", "Pringle">>}
RelationshipTypes == {"friend", "dislikes"}
Sentiments == {"positive", "negative"}

\* full_name LIKE pattern
RECURSIVE LikePattern(_, _)
LikePattern(pattern, full_name) ==
    IF pattern = <<>> THEN full_name = <<>>
    ELSE IF Head(pattern) = "%"
    THEN \/ LikePattern(Tail(pattern), full_name)
         \/ full_name # <<>> /\ LikePattern(pattern, Tail(full_name))
    ELSE /\ full_name # <<>>
         /\ Head(pattern) = Head(full_name)
         /\ LikePattern(Tail(pattern), Tail(full_name))

\* full_name LIKE '%text%'
Like(text, full_name) == LikePattern(<<"%">> \o text \o <<"%">>, full_name)

\* The rows of SELECT full_name FROM characters WHERE full_name LIKE '%text%'.
Matches(text) == {c \in characters : Like(text, c)}

Relationships ==
    [from_character : characters, to_character : characters,
     relationship_type : RelationshipTypes, sentiment : Sentiments]

\* UNIQUE(from_character, to_character, relationship_type)
SameKey(a, b) ==
    /\ a.from_character = b.from_character
    /\ a.to_character = b.to_character
    /\ a.relationship_type = b.relationship_type

\* The SELECT with the two characters exchanged.
RelationshipTypesOfReversed(f, t, s) ==
    {e.relationship_type : e \in {x \in character_relationships :
        x.from_character = t /\ x.to_character = f /\ x.sentiment = s}}

\* SELECT relationship_type ... WHERE from_character = f AND to_character = t
\* AND sentiment = s
RelationshipTypesOf(f, t, s) ==
    {e.relationship_type : e \in {x \in character_relationships :
        x.from_character = f /\ x.to_character = t /\ x.sentiment = s}}

\* The orders in which fetchall may return a set of rows: the SELECT has no
\* ORDER BY.
RECURSIVE fetchall(_)
fetchall(rows) ==
    IF rows = {} THEN {<<>>}
    ELSE UNION {{<<r>> \o rest : rest \in fetchall(rows \ {r})} : r \in rows}

NoRecruitCall == [name |-> "none", recruiter |-> <<>>, target |-> <<>>]
NoRecruitOut == [kind |-> "none", recruiter |-> <<>>, target |-> <<>>, reasons |-> <<>>]
NotFound(text) == [kind |-> "not_found", recruiter |-> text, target |-> <<>>, reasons |-> <<>>]
RecruitOff ==
    /\ character_relationships = {}
    /\ db_phase = "off"
    /\ recruit_call = NoRecruitCall
    /\ recruit_out = NoRecruitOut
RecruitInit ==
    /\ character_relationships = {}
    /\ db_phase = "building"
    /\ recruit_call = NoRecruitCall
    /\ recruit_out = NoRecruitOut

\* Permit checked before block.
can_recruit_answer_permit_first(recruiter_match, target_match, positive, blocked) ==
    IF positive # <<>>
    THEN [kind |-> "YES", recruiter |-> recruiter_match, target |-> target_match,
          reasons |-> positive]
    ELSE IF blocked # <<>>
    THEN [kind |-> "NO", recruiter |-> recruiter_match, target |-> target_match,
          reasons |-> blocked]
    ELSE [kind |-> "UNKNOWN", recruiter |-> recruiter_match, target |-> target_match,
          reasons |-> <<>>]

\* The answer of can_recruit_query once both names are resolved and both
\* row lists are fetched.
can_recruit_answer(recruiter_match, target_match, positive, blocked) ==
    IF blocked # <<>>
    THEN [kind |-> "NO", recruiter |-> recruiter_match, target |-> target_match,
          reasons |-> blocked]
    ELSE IF positive # <<>>
    THEN [kind |-> "YES", recruiter |-> recruiter_match, target |-> target_match,
          reasons |-> positive]
    ELSE [kind |-> "UNKNOWN", recruiter |-> recruiter_match, target |-> target_match,
          reasons |-> <<>>]

\* One INSERT OR IGNORE of build_relationship_database: a row whose key is
\* in the table already is dropped.
insert_relationship ==
    /\ db_phase = "building"
    /\ Cardinality(character_relationships) < MaxEdges
    /\ \E e \in Relationships :
        /\ e.from_character # e.to_character
        /\ character_relationships' =
               IF \E x \in character_relationships : SameKey(x, e)
               THEN character_relationships
               ELSE character_relationships \cup {e}
    /\ UNCHANGED <<db_phase, recruit_call, recruit_out, searchVars,
                   jobVars, loopVars, toolVars, parseVars>>

\* conn.commit(): the table is built, the server reads it from now on.
build_relationship_database_commit ==
    /\ db_phase = "building"
    /\ db_phase' = "serving"
    /\ UNCHANGED <<character_relationships, recruit_call, recruit_out, searchVars,
                   jobVars, loopVars, toolVars, parseVars>>

\* can_recruit_query(recruiter, target): fetchone takes any matching name.
can_recruit_query(recruiter, target) ==
    /\ db_phase = "serving"
    /\ recruit_call = NoRecruitCall
    /\ recruit_call' = [name |-> "can_recruit", recruiter |-> recruiter, target |-> target]
    /\ IF Matches(recruiter) = {} THEN recruit_out' = NotFound(recruiter)
       ELSE IF Matches(target) = {} THEN recruit_out' = NotFound(target)
       ELSE \E recruiter_match \in Matches(recruiter), target_match \in Matches(target) :
            \E positive \in fetchall(RelationshipTypesOf(recruiter_match, target_match, "positive")),
               blocked \in fetchall(RelationshipTypesOf(target_match, recruiter_match, "negative")) :
                recruit_out' = can_recruit_answer(recruiter_match, target_match, positive, blocked)
    /\ UNCHANGED <<character_relationships, db_phase, searchVars,
                   jobVars, loopVars, toolVars, parseVars>>

\* The SELECT without its sentiment condition.
OutgoingRowsAnySentiment(c, s) ==
    {<<e.to_character, e.relationship_type>> : e \in {x \in character_relationships :
        x.from_character = c}}

\* call_tool returns the text of the query to the client: the call is over.
call_tool_return ==
    /\ recruit_call # NoRecruitCall
    /\ recruit_call' = NoRecruitCall
    /\ recruit_out' = NoRecruitOut
    /\ UNCHANGED <<character_relationships, db_phase, searchVars,
                   jobVars, loopVars, toolVars, parseVars>>

\* SELECT to_character, relationship_type ... WHERE from_character = c AND
\* sentiment = s
OutgoingRows(c, s) ==
    {<<e.to_character, e.relationship_type>> : e \in {x \in character_relationships :
        x.from_character = c /\ x.sentiment = s}}

\* The SELECT with from_character in the place of to_character.
IncomingRowsOfSource(c, s) ==
    {<<e.from_character, e.relationship_type>> : e \in {x \in character_relationships :
        x.from_character = c /\ x.sentiment = s}}

\* SELECT from_character, relationship_type ... WHERE to_character = c AND
\* sentiment = s
IncomingRows(c, s) ==
    {<<e.from_character, e.relationship_type>> : e \in {x \in character_relationships :
        x.to_character = c /\ x.sentiment = s}}

\* The calls with one name hold it in target.
RecruitCall(name, text) == [name |-> name, recruiter |-> <<>>, target |-> text]

\* who_can_recruit_query(target)
who_can_recruit_query(target) ==
    /\ db_phase = "serving"
    /\ recruit_call = NoRecruitCall
    /\ recruit_call' = RecruitCall("who_can_recruit", target)
    /\ IF Matches(target) = {} THEN recruit_out' = NotFound(target)
       ELSE \E target_match \in Matches(target) :
            \E can_recruit \in fetchall(OutgoingRows(target_match, "positive")),
               cannot_recruit \in fetchall(OutgoingRows(target_match, "negative")) :
                recruit_out' = [kind |-> "who_can_recruit", recruiter |-> <<>>,
                                target |-> target_match, reasons |-> <<>>,
                                can_recruit |-> can_recruit,
                                cannot_recruit |-> cannot_recruit]
    /\ UNCHANGED <<character_relationships, db_phase, searchVars,
                   jobVars, loopVars, toolVars, parseVars>>

\* get_enemies_query(character)
get_enemies_query(character) ==
    /\ db_phase = "serving"
    /\ recruit_call = NoRecruitCall
    /\ recruit_call' = RecruitCall("get_enemies", character)
    /\ IF Matches(character) = {} THEN recruit_out' = NotFound(character)
       ELSE \E char_match \in Matches(character) :
            \E dislikes \in fetchall(OutgoingRows(char_match, "negative")),
               disliked_by \in fetchall(IncomingRows(char_match, "negative")) :
                recruit_out' = [kind |-> "get_enemies", recruiter |-> <<>>,
                                target |-> char_match, reasons |-> <<>>,
                                dislikes |-> dislikes, disliked_by |-> disliked_by]
    /\ UNCHANGED <<character_relationships, db_phase, searchVars,
                   jobVars, loopVars, toolVars, parseVars>>

\* get_friends_query(character)
get_friends_query(character) ==
    /\ db_phase = "serving"
    /\ recruit_call = NoRecruitCall
    /\ recruit_call' = RecruitCall("get_friends", character)
    /\ IF Matches(character) = {} THEN recruit_out' = NotFound(character)
       ELSE \E char_match \in Matches(character) :
            \E friends \in fetchall(OutgoingRows(char_match, "positive")),
               liked_by \in fetchall(IncomingRows(char_match, "positive")) :
                recruit_out' = [kind |-> "get_friends", recruiter |-> <<>>,
                                target |-> char_match, reasons |-> <<>>,
                                friends |-> friends, liked_by |-> liked_by]
    /\ UNCHANGED <<character_relationships, db_phase, searchVars,
                   jobVars, loopVars, toolVars, parseVars>>

\* ------------------------------------------------------------ manual search
PageLimit == 15
Pages == 1..NumPages
\* A page holds one word; the ranked tier matches whole words, the substring
\* tier matches parts of words.
PageWords == {"snow", "snowmobile", "ice"}
\* "" | "snow" | "of" | "snow AND" | "sn_w"
Queries == {<<>>, <<"snow">>, <<"of">>, <<"snow", "AND">>, <<"sn_w">>}

\* word LIKE '%part%': the _ of a part stands for any one character.
Contains(word, part) ==
    \/ word = part
    \/ word = "snowmobile" /\ part = "snow"
    \/ word \in {"snow", "snowmobile"} /\ part = "sn_w"

\* MATCH raises on a query that is no FTS5 expression: the empty string, or
\* one that ends in an operator.
MatchRaises(query) == query = <<>> \/ query[Len(query)] = "AND"

\* The pages the index matches: every term of the query is a word of the page.
MatchRows(query) == {p \in Pages : \A i \in 1..Len(query) : manual_pages[p] = query[i]}

\* bm25(manual_fts) of a matching page, smaller is better.
bm25(p) == IF bm25_desc THEN NumPages - p ELSE p

\* ORDER BY key: the rows as a sequence, smallest key first.
RECURSIVE OrderBy(_, _)
OrderBy(rows, key) ==
    IF rows = {} THEN <<>>
    ELSE LET first == CHOOSE r \in rows : \A o \in rows : key[r] <= key[o]
         IN <<first>> \o OrderBy(rows \ {first}, key)

\* LIMIT n
Limit(rows, n) == IF Len(rows) <= n THEN rows ELSE SubSeq(rows, 1, n)

\* The ranked SELECT: ORDER BY rank LIMIT 15.
RankedTier(query) == Limit(OrderBy(MatchRows(query), [p \in Pages |-> bm25(p)]), PageLimit)

\* words = [w for w in query.split() if len(w) > 2]
WordLen(w) ==
    CASE w = "of" -> 2 [] w = "AND" -> 3 [] w = "snow" -> 4 [] w = "sn_w" -> 4 [] OTHER -> 3
LongWords(query) == SelectSeq(query, LAMBDA w : WordLen(w) > 2)

\* The substring SELECT: content LIKE any of the words, ORDER BY page_number
\* LIMIT 15.
SubstringTier(words) ==
    Limit(OrderBy({p \in Pages : \E i \in 1..Len(words) : Contains(manual_pages[p], words[i])},
                  [p \in Pages |-> p]),
          PageLimit)

\* A call of a retrieval operation: which server, which operation, and its
\* arguments (those the operation does not take stay at their empty value).
SearchCall(server, name, query, section, page_number) ==
    [server |-> server, name |-> name, query |-> query, section |-> section,
     page_number |-> page_number]
NoSearchCall == SearchCall("none", "none", <<>>, "", 0)

\* What a retrieval operation returns: the kind of text, the pages of its
\* rows, whether the ranked and the substring SELECT were executed, and the
\* valid values an error text names.
NoSearchOut ==
    [kind |-> "none", rows |-> <<>>, ranked |-> FALSE, substring |-> FALSE, valid |-> <<>>]
SearchOut(rows, r, s) ==
    [kind |-> IF rows = <<>> THEN "no_results" ELSE "found",
     rows |-> rows, ranked |-> r, substring |-> s, valid |-> <<>>]
\* "Error: ..." after the ranked SELECT raised.
SearchError ==
    [kind |-> "error", rows |-> <<>>, ranked |-> TRUE, substring |-> FALSE, valid |-> <<>>]
SearchOff ==
    /\ manual_pages = <<>>
    /\ bm25_desc = FALSE
    /\ search_call = NoSearchCall
    /\ search_out = NoSearchOut
\* A manual whose first pages say "snow", the next ones "snowmobile" and the
\* rest "ice".
SearchInit ==
    /\ \E n \in 0..NumPages : \E m \in 0..(NumPages - n) :
        manual_pages = [p \in Pages |->
            IF p <= n THEN "snow" ELSE IF p <= n + m THEN "snowmobile" ELSE "ice"]
    /\ bm25_desc \in BOOLEAN
    /\ search_call = NoSearchCall
    /\ search_out = NoSearchOut

\* search_manual_db(query) of the Flask API.
search_manual_db(query) ==
    LET results == IF MatchRaises(query) THEN <<>> ELSE RankedTier(query)
        words == LongWords(query)
    IN IF results # <<>> THEN SearchOut(results, TRUE, FALSE)
       ELSE IF words # <<>> THEN SearchOut(SubstringTier(words), TRUE, TRUE)
       ELSE SearchOut(<<>>, TRUE, FALSE)

\* search_manual_query(query) of the MCP server.
search_manual_query(query) ==
    IF MatchRaises(query) THEN SearchError
    ELSE SearchOut(RankedTier(query), TRUE, FALSE)

api_search_manual ==
    /\ \E query \in Queries :
        /\ search_call' = SearchCall("api", "search_manual", query, "", 0)
        /\ search_out' = search_manual_db(query)
    /\ UNCHANGED <<manual_pages, bm25_desc, recruitVars, jobVars, loopVars, toolVars, parseVars>>

mcp_search_manual ==
    /\ \E query \in Queries :
        /\ search_call' = SearchCall("mcp", "search_manual", query, "", 0)
        /\ search_out' = search_manual_query(query)
    /\ UNCHANGED <<manual_pages, bm25_desc, recruitVars, jobVars, loopVars, toolVars, parseVars>>

\* ---------------------------------------------------------------- show_page
\* The manual's last page: the 196 of "Valid pages are 1-196".
LastPage == NumPages
\* The page numbers asked for: every page, the one before the first and the
\* one after the last.
PageNumbers == 0..(NumPages + 1)

\* The stored section_type of a page.
SectionType(p) == IF p % 2 = 1 THEN "characters" ELSE "equipment"

PageOut(p) ==
    [kind |-> "page", rows |-> <<p>>, ranked |-> FALSE, substring |-> FALSE, valid |-> <<>>,
     section_type |-> SectionType(p), content |-> manual_pages[p]]
PageNotFound(range) ==
    [kind |-> "not_found", rows |-> <<>>, ranked |-> FALSE, substring |-> FALSE, valid |-> range]

\* show_page_db(page_number) of the Flask API: "Page n not found. Valid
\* pages are 1-196."
show_page_db(page_number) ==
    IF page_number \in DOMAIN manual_pages THEN PageOut(page_number)
    ELSE PageNotFound(<<1, LastPage>>)

\* show_page_query(page_number) of the MCP server: "Page n not found".
show_page_query(page_number) ==
    IF page_number \in DOMAIN manual_pages THEN PageOut(page_number)
    ELSE PageNotFound(<<>>)

api_show_page ==
    /\ \E page_number \in PageNumbers :
        /\ search_call' = SearchCall("api", "show_page", <<>>, "", page_number)
        /\ search_out' = show_page_db(page_number)
    /\ UNCHANGED <<manual_pages, bm25_desc, recruitVars, jobVars, loopVars, toolVars, parseVars>>

mcp_show_page ==
    /\ \E page_number \in PageNumbers :
        /\ search_call' = SearchCall("mcp", "show_page", <<>>, "", page_number)
        /\ search_out' = show_page_query(page_number)
    /\ UNCHANGED <<manual_pages, bm25_desc, recruitVars, jobVars, loopVars, toolVars, parseVars>>

\* -------------------------------------------------------- filter_by_section
valid_sections == <<"characters", "equipment", "locations", "story_sections", "general_content">>
\* A valid name, a second one, a name that is not valid, and the empty text.
Sections == {"characters", "equipment", "weapons", ""}

InvalidSection ==
    [kind |-> "invalid_section", rows |-> <<>>, ranked |-> FALSE, substring |-> FALSE,
     valid |-> valid_sections]

\* section_map.get(section, section)
section_map(section) ==
    CASE section = "characters" -> "character"
      [] section = "equipment" -> "equipment"
      [] section = "locations" -> "location"
      [] section = "story_sections" -> "story"
      [] section = "general_content" -> "general"
      [] OTHER -> section

\* section_type LIKE '%t%' on the stored values.
SectionTypeLike(stored, t) ==
    \/ t = ""
    \/ stored = t
    \/ stored = "characters" /\ t = "character"

\* filter_by_section_db(section, query) of the Flask API.
filter_by_section_db(section, query) ==
    IF \A i \in 1..Len(valid_sections) : valid_sections[i] # section THEN InvalidSection
    ELSE
    LET in_section == {p \in Pages : SectionType(p) = section}
        results == IF MatchRaises(query) THEN <<>>
                   ELSE Limit(OrderBy(MatchRows(query) \cap in_section,
                                      [p \in Pages |-> bm25(p)]), PageLimit)
        words == LongWords(query)
    IN IF results # <<>> THEN SearchOut(results, TRUE, FALSE)
       ELSE IF words # <<>>
            THEN SearchOut(Limit(OrderBy({p \in in_section : \E i \in 1..Len(words) :
                                              Contains(manual_pages[p], words[i])},
                                         [p \in Pages |-> p]), PageLimit),
                           TRUE, TRUE)
       ELSE SearchOut(<<>>, TRUE, FALSE)

\* filter_by_section_query(section, query) of the MCP server; its SELECT has
\* a LIMIT and no ORDER BY: the rows come in the order of the scan, here by
\* page number upward (backward = FALSE) or downward.
filter_by_section_query(section, query, backward) ==
    IF MatchRaises(query) THEN SearchError
    ELSE LET rows == {p \in MatchRows(query) :
                        SectionTypeLike(SectionType(p), section_map(section))}
         IN SearchOut(Limit(OrderBy(rows, [p \in Pages |-> IF backward THEN 0 - p ELSE p]),
                            PageLimit),
                      TRUE, FALSE)

api_filter_by_section ==
    /\ \E section \in Sections, query \in Queries :
        /\ search_call' = SearchCall("api", "filter_by_section", query, section, 0)
        /\ search_out' = filter_by_section_db(section, query)
    /\ UNCHANGED <<manual_pages, bm25_desc, recruitVars, jobVars, loopVars, toolVars, parseVars>>

mcp_filter_by_section ==
    /\ \E section \in Sections, query \in Queries, backward \in BOOLEAN :
        /\ search_call' = SearchCall("mcp", "filter_by_section", query, section, 0)
        /\ search_out' = filter_by_section_query(section, query, backward)
    /\ UNCHANGED <<manual_pages, bm25_desc, recruitVars, jobVars, loopVars, toolVars, parseVars>>

\* ------------------------------------------------------- structured results
\* The final text is a sequence of tokens: a citation marker of the form
\* **Page N** [section], a page mark **Page N** that no section follows,
\* a word, and a run of text of 600 characters.
Tokens == {"**Page 1** [characters]", "**Page 2** [equipment]", "**Page 2**", "word", "run"}
TokenLen(t) == IF t = "run" THEN 600 ELSE Len(t)

\* page_pattern = r'\*\*Page (\d+)\*\* \[([^\]]+)\]'
page_pattern(t) == t \in {"**Page 1** [characters]", "**Page 2** [equipment]"}
page_number(t) == IF t = "**Page 1** [characters]" THEN 1 ELSE 2
section(t) == IF t = "**Page 1** [characters]" THEN "characters" ELSE "equipment"

\* r'\*\*Page \d+\*\*', the pattern that ends a snippet
page_mark(t) == page_pattern(t) \/ t = "**Page 2**"

SnippetLimit == 500
\* snippet[:500]: the tokens that fit whole, then the cut piece of the next.
RECURSIVE Truncate(_, _)
Truncate(snippet, n) ==
    IF snippet = <<>> THEN <<>>
    ELSE IF TokenLen(Head(snippet)) <= n
    THEN <<Head(snippet)>> \o Truncate(Tail(snippet), n - TokenLen(Head(snippet)))
    ELSE IF n = 0 THEN <<>> ELSE <<"cut">>

\* final_text[start:end] for the match at position i: up to the next page
\* mark, or the end of the text.
SnippetOf(text, i) ==
    LET marks == {j \in (i + 1)..Len(text) : page_mark(text[j])}
        end == IF marks = {} THEN Len(text) + 1
               ELSE CHOOSE j \in marks : \A k \in marks : j <= k
    IN SubSeq(text, i + 1, end - 1)

\* for match in re.finditer(page_pattern, final_text): results.append(...)
RECURSIVE ResultsFrom(_, _)
ResultsFrom(text, i) ==
    IF i > Len(text) THEN <<>>
    ELSE IF page_pattern(text[i])
    THEN <<[page_number |-> page_number(text[i]), section |-> section(text[i]),
            content |-> Truncate(SnippetOf(text, i), SnippetLimit)]>>
         \o ResultsFrom(text, i + 1)
    ELSE ResultsFrom(text, i + 1)

None == <<"None">>
NoResult == [parsed |-> FALSE, results |-> <<>>, raw_response |-> None]
ParseOff == final_text = <<>> /\ result = NoResult
ParseInit ==
    /\ final_text \in UNION {[1..n -> Tokens] : n \in 0..MaxText}
    /\ result = NoResult

\* The end of run_search_job and of search: 'results' and 'raw_response'.
parse_results ==
    /\ ~result.parsed
    /\ LET results == ResultsFrom(final_text, 1)
       IN result' = [parsed |-> TRUE, results |-> results,
                     raw_response |-> IF results = <<>> THEN final_text ELSE None]
    /\ UNCHANGED <<final_text, jobVars, loopVars, toolVars, recruitVars, searchVars>>

Init == JobInit /\ LoopOff /\ ToolsOff /\ RecruitOff /\ SearchOff /\ ParseOff

Next ==
    \/ \E c \in Clients : search_start(c)
    \/ \E w \in Workers : run_search_job_start(w)
    \/ \E w \in Workers : run_search_job_client(w)
    \/ \E w \in Workers : run_search_job_loop(w)
    \/ \E w \in Workers : run_search_job_blocked(w)
    \/ \E c \in Clients : search_status_check(c)
    \/ \E c \in Clients : search_status_lookup(c)
    \/ \E c \in Clients : search_status_del(c)

Spec == Init /\ [][Next]_vars

InitLoop == JobInit /\ LoopInit /\ ToolsOff /\ RecruitOff /\ SearchOff /\ ParseOff
NextLoop == loop_first \/ loop_round \/ loop_force \/ loop_finish
SpecLoop == InitLoop /\ [][NextLoop]_vars

\* Every variant of the loop in the source, the two applications' included.
VariantsInit ==
    /\ profile \in AllProfiles /\ lpc = "start" /\ rounds = 0
    /\ response = NoResponseYet /\ messages = <<>> /\ tool_results = <<>>
    /\ outcome = NoOutcome /\ exchanges = 0 /\ tool_rounds = 0
    /\ all_tool_use = TRUE
InitVariants == JobInit /\ VariantsInit /\ ToolsOff /\ RecruitOff /\ SearchOff /\ ParseOff
SpecVariants == InitVariants /\ [][NextLoop]_vars

NextTools == api_dispatch \/ mcp_dispatch
SpecTools == Init /\ [][NextTools]_vars

InitRecruit == JobInit /\ LoopOff /\ ToolsOff /\ RecruitInit /\ SearchOff /\ ParseOff
NextRecruit ==
    \/ insert_relationship
    \/ build_relationship_database_commit
    \/ \E recruiter \in NameTexts, target \in NameTexts : can_recruit_query(recruiter, target)
    \/ \E target \in NameTexts : who_can_recruit_query(target)
    \/ \E character \in NameTexts : get_enemies_query(character)
    \/ \E character \in NameTexts : get_friends_query(character)
    \/ call_tool_return
SpecRecruit == InitRecruit /\ [][NextRecruit]_vars

InitParse == JobInit /\ LoopOff /\ ToolsOff /\ RecruitOff /\ SearchOff /\ ParseInit
NextParse == parse_results
SpecParse == InitParse /\ [][NextParse]_vars

InitSearch == JobInit /\ LoopOff /\ ToolsOff /\ RecruitOff /\ SearchInit /\ ParseOff
NextSearch ==
    \/ api_search_manual
    \/ mcp_search_manual
    \/ api_show_page
    \/ mcp_show_page
    \/ api_filter_by_section
    \/ mcp_filter_by_section
SpecSearch == InitSearch /\ [][NextSearch]_vars

\* ------------------------------------------------------- job tracker claims
StatusCallReturned(c) == clients[c].pc = "done" /\ clients[c].job_id # 0
Delivered(c) == StatusCallReturned(c) /\ clients[c].resp.payload.kind # "none"

\* C1: once a job is terminal, its record stays as stored until a status
\* call returns it and removes it, and a status(id) call made after that
\* finds the id absent (it answers 'Job not found').
C1_ReadOnce ==
    [][ /\ \A id \in JobIds :
            (Terminal(search_jobs[id]) /\ search_jobs'[id] # search_jobs[id]) =>
                /\ search_jobs'[id] = Absent
                /\ \E c \in Clients :
                    /\ clients[c].pc = "del" /\ clients'[c].pc = "done"
                    /\ clients'[c].resp = Response(200, search_jobs[id].status,
                                                    search_jobs[id].payload)
        /\ \A c \in Clients :
            (clients[c].pc \in {"idle", "done"} /\ clients'[c].pc = "lookup") =>
                clients'[c].job_id \notin consumed ]_vars

\* C2: a job's status only moves forward, pending -> running -> complete or
\* error: no step takes the record under an id from running to pending, from
\* a terminal status to pending or running, or from one terminal status to
\* the other.
C2_Monotonic ==
    [][ \A id \in JobIds :
          LET a == search_jobs[id].status
              b == search_jobs'[id].status
          IN  /\ ~(a = "running" /\ b = "pending")
              /\ ~(a \in {"complete", "error"} /\ b \in {"pending", "running"})
              /\ ~(a = "complete" /\ b = "error")
              /\ ~(a = "error" /\ b = "complete") ]_vars

\* C7: status calls racing for one terminal job: exactly one returns the
\* stored result, the others answer NotFound; no call ends in another error
\* (500) and no result is delivered to two calls.
C7_ExactlyOnce ==
    /\ \A c \in Clients : clients[c].resp.code # 500
    /\ \A c, d \in Clients :
        (c # d /\ Delivered(c) /\ Delivered(d)) =>
            clients[c].resp.payload # clients[d].resp.payload

\* C8: a worker sets its job's record to running, then writes exactly one
\* terminal record and nothing after it, and no two workers write the same
\* job id.
HasWritten(ws, w) == ws[w].pc \notin {"unborn", "start"}
C8_SingleWriter ==
    [][ /\ \A w \in Workers :
            (workers[w].pc = "start" /\ workers'[w].pc # "start") =>
                search_jobs'[workers[w].job_id].status = "running"
        /\ \A w \in Workers :
            (workers[w].pc \in {"get_client", "loop"} /\ workers'[w].pc # workers[w].pc
                /\ search_jobs'[workers[w].job_id] # search_jobs[workers[w].job_id]) =>
                (workers'[w].pc = "done" /\ Terminal(search_jobs'[workers[w].job_id]))
        /\ \A w \in Workers :
            workers[w].pc = "done" =>
                (workers'[w] = workers[w]
                 /\ (search_jobs'[workers[w].job_id] # search_jobs[workers[w].job_id] =>
                        \E c \in Clients : clients[c].pc = "del" /\ clients'[c].pc = "done"))
        /\ \A w, v \in Workers :
            (w # v /\ HasWritten(workers', w) /\ HasWritten(workers', v)) =>
                workers'[w].job_id # workers'[v].job_id ]_vars

C4_ForcedFinalAnswer ==
    (lpc = "done" /\ outcome.status = "complete") =>
        /\ outcome.answer_from.stop_reason # "tool_use"
        /\ (all_tool_use =>
              /\ ~outcome.answer_from.tools_offered
              /\ exchanges = Ceiling(profile) + 2)

\* The ids of the tool_use blocks the service has sent so far.
RequestedIds ==
    UNION { {messages[m].content[i].id : i \in 1..Len(messages[m].content)} :
                m \in {k \in 1..Len(messages) : messages[k].role = "assistant"} }

\* C9: a tool name that is in no registry does not raise: its result is the
\* text 'Unknown tool: <name>', no operation is invoked, the loop goes on to
\* its next exchange, and a failure of the loop in a tool call is never the
\* failure of a call with an unknown name.
C9_UnknownTool ==
    /\ \A i \in 1..Len(tool_results) :
        /\ tool_results[i].tool_use_id \in RequestedIds
        /\ tool_results[i].name \notin ApiTools =>
            /\ tool_results[i].type = "tool_result"
            /\ tool_results[i].content =
                   ToolText("none", <<"Unknown tool: ", tool_results[i].name>>)
    /\ (tool_results # <<>> /\ ~Raised(tool_results)) => exchanges = tool_rounds + 1
    /\ outcome = Failed("KeyError") =>
           /\ Raised(tool_results)
           /\ tool_results[Len(tool_results)].name \in ApiTools
    /\ \A input \in {{}, {"query"}} :
           call_tool("get_weather", input) = ToolText("none", <<"Unknown tool: ", "get_weather">>)

C9_Witness ==
    /\ lpc = "done" /\ outcome.status = "complete" /\ profile = "background"
    /\ \E i \in 1..Len(tool_results) :
        tool_results[i].content = ToolText("none", <<"Unknown tool: ", "get_weather">>)

\* --------------------------------------------------------- dispatcher claims
MissingField ==
    IF tool_call.server = "api" THEN FirstMissing(Required(tool_call.name), tool_call.input)
    ELSE FirstMissing(McpRequired(tool_call.name), tool_call.input)

\* C10: a call of a registered tool that lacks a required argument invokes
\* no retrieval or relationship operation and yields an error that names
\* the missing field.
C10_MissingArgument ==
    (tool_call.name \in (IF tool_call.server = "api" THEN ApiTools ELSE McpTools)
        /\ MissingField # "none") =>
        /\ tool_out.op = "none"
        /\ \E i \in 1..Len(tool_out.text) : tool_out.text[i] = MissingField

\* ------------------------------------------------- relationship graph claims
Range(f) == {f[i] : i \in DOMAIN f}
NegativeToward(r, t) ==
    {e \in character_relationships :
        e.from_character = t /\ e.to_character = r /\ e.sentiment = "negative"}
PositiveFrom(r, t) ==
    {e \in character_relationships :
        e.from_character = r /\ e.to_character = t /\ e.sentiment = "positive"}
Lists(reasons, edges) ==
    /\ Range(reasons) = {e.relationship_type : e \in edges}
    /\ Len(reasons) = Cardinality(edges)

\* C5: for a resolved pair, can_recruit answers NO with the labels of all
\* negative edges target->recruiter whenever one exists, also when a positive
\* edge recruiter->target exists; else YES with the labels of all positive
\* edges recruiter->target when one exists; else UNKNOWN.
C5_BlockBeforePermit ==
    /\ (recruit_call.name = "can_recruit"
            /\ Matches(recruit_call.recruiter) # {} /\ Matches(recruit_call.target) # {})
        => recruit_out.kind \in {"NO", "YES", "UNKNOWN"}
    /\ recruit_out.kind \in {"NO", "YES", "UNKNOWN"} =>
        LET neg == NegativeToward(recruit_out.recruiter, recruit_out.target)
            pos == PositiveFrom(recruit_out.recruiter, recruit_out.target)
        IN /\ recruit_out.recruiter \in Matches(recruit_call.recruiter)
           /\ recruit_out.target \in Matches(recruit_call.target)
           /\ neg # {} => recruit_out.kind = "NO" /\ Lists(recruit_out.reasons, neg)
           /\ (neg = {} /\ pos # {}) =>
                  recruit_out.kind = "YES" /\ Lists(recruit_out.reasons, pos)
           /\ (neg = {} /\ pos = {}) => recruit_out.kind = "UNKNOWN"

\* A NO that lists two labels while the recruiter has a positive edge to the
\* target.
C5_Witness ==
    /\ recruit_out.kind = "NO"
    /\ Len(recruit_out.reasons) = 2
    /\ PositiveFrom(recruit_out.recruiter, recruit_out.target) # {}

\* C20: can_recruit returns UNKNOWN only when the graph holds no edge
\* between the two characters, in either direction and of any sentiment.
C20_UnknownOnlyWithoutEdge ==
    (recruit_call.name = "can_recruit" /\ recruit_out.kind = "UNKNOWN") =>
        \A e \in character_relationships :
            /\ ~(e.from_character = recruit_out.recruiter
                    /\ e.to_character = recruit_out.target)
            /\ ~(e.from_character = recruit_out.target
                    /\ e.to_character = recruit_out.recruiter)

\* The rows of a list are the rows of a set, each once.
ListsRows(list, rows) ==
    /\ Range(list) = rows
    /\ Len(list) = Cardinality(rows)

\* C21: for every resolved target who_can_recruit returns as the
\* can-recruit list exactly the destinations of the positive edges whose
\* source is the target and as the cannot-recruit list exactly the
\* destinations of the negative edges whose source is the target; a target
\* with no outgoing edge gets two empty lists and no error.
C21_WhoCanRecruitLists ==
    (recruit_call.name = "who_can_recruit" /\ Matches(recruit_call.target) # {}) =>
        /\ recruit_out.kind = "who_can_recruit"
        /\ recruit_out.target \in Matches(recruit_call.target)
        /\ LET t == recruit_out.target
               edges(sentiment) == {e \in character_relationships :
                                      e.from_character = t /\ e.sentiment = sentiment}
               destinations(list) == {list[i][1] : i \in 1..Len(list)}
           IN /\ destinations(recruit_out.can_recruit) =
                     {e.to_character : e \in edges("positive")}
              /\ Len(recruit_out.can_recruit) = Cardinality(edges("positive"))
              /\ destinations(recruit_out.cannot_recruit) =
                     {e.to_character : e \in edges("negative")}
              /\ Len(recruit_out.cannot_recruit) = Cardinality(edges("negative"))

\* A target that likes one character and dislikes another.
C21_Witness ==
    /\ recruit_out.kind = "who_can_recruit"
    /\ Len(recruit_out.can_recruit) = 1
    /\ Len(recruit_out.cannot_recruit) = 1
    /\ recruit_out.can_recruit[1][1] # recruit_out.cannot_recruit[1][1]

\* A target without outgoing edge, while the table holds an edge to it.
C21_WitnessEmpty ==
    /\ recruit_out.kind = "who_can_recruit"
    /\ recruit_out.can_recruit = <<>> /\ recruit_out.cannot_recruit = <<>>
    /\ \E e \in character_relationships : e.to_character = recruit_out.target

\* C22: for every resolved character c get_friends(c) lists exactly the
\* positive edges with source c and exactly the positive edges with
\* destination c, get_enemies(c) exactly the negative edges in the same two
\* directions, so that every edge touching c is in the output of exactly
\* one of the two operations.
C22_FriendsAndEnemies ==
    LET c == recruit_out.target
        from_c(sentiment) == {e \in character_relationships :
                                e.from_character = c /\ e.sentiment = sentiment}
        to_c(sentiment) == {e \in character_relationships :
                              e.to_character = c /\ e.sentiment = sentiment}
        touching == {e \in character_relationships :
                        e.from_character = c \/ e.to_character = c}
    IN /\ (recruit_call.name \in {"get_friends", "get_enemies"}
               /\ Matches(recruit_call.target) # {}) =>
              /\ recruit_out.kind = recruit_call.name
              /\ c \in Matches(recruit_call.target)
       /\ recruit_out.kind = "get_friends" =>
              /\ ListsRows(recruit_out.friends,
                           {<<e.to_character, e.relationship_type>> : e \in from_c("positive")})
              /\ ListsRows(recruit_out.liked_by,
                           {<<e.from_character, e.relationship_type>> : e \in to_c("positive")})
              /\ Len(recruit_out.friends) + Len(recruit_out.liked_by)
                     = Cardinality({e \in touching : e.sentiment # "negative"})
       /\ recruit_out.kind = "get_enemies" =>
              /\ ListsRows(recruit_out.dislikes,
                           {<<e.to_character, e.relationship_type>> : e \in from_c("negative")})
              /\ ListsRows(recruit_out.disliked_by,
                           {<<e.from_character, e.relationship_type>> : e \in to_c("negative")})
              /\ Len(recruit_out.dislikes) + Len(recruit_out.disliked_by)
                     = Cardinality({e \in touching : e.sentiment # "positive"})

\* A character that likes one character and is liked by another, while a
\* third edge touching it is negative.
C22_Witness ==
    /\ recruit_out.kind = "get_friends"
    /\ Len(recruit_out.friends) = 1 /\ Len(recruit_out.liked_by) = 1
    /\ recruit_out.friends[1][1] # recruit_out.liked_by[1][1]
    /\ \E e \in character_relationships :
           /\ e.sentiment = "negative"
           /\ e.from_character = recruit_out.target \/ e.to_character = recruit_out.target

\* The words of the text occur in the name one after the other.
IsSubstring(text, full_name) ==
    \E i \in 0..(Len(full_name) - Len(text)) : SubSeq(full_name, i + 1, i + Len(text)) = text
Unmatched(text) == \A c \in characters : ~IsSubstring(text, c)

\* C23: in every relationship operation a name argument that is a substring
\* of no known character name yields NotFound quoting that text, and no
\* edge is reported.
C23_UnmatchedNameNotFound ==
    /\ (recruit_call.name = "can_recruit"
            /\ (Unmatched(recruit_call.recruiter) \/ Unmatched(recruit_call.target))) =>
           /\ recruit_out.kind = "not_found"
           /\ recruit_out.recruiter \in
                  {t \in {recruit_call.recruiter, recruit_call.target} : Unmatched(t)}
    /\ (recruit_call.name \in {"who_can_recruit", "get_friends", "get_enemies"}
            /\ Unmatched(recruit_call.target)) =>
           /\ recruit_out.kind = "not_found"
           /\ recruit_out.recruiter = recruit_call.target

\* C24: name resolution is deterministic: over the same table the same
\* text resolves to the same name in every run of a query, also when the
\* text is a substring of several names.
C24_ResolutionDeterministic ==
    \A recruiter \in NameTexts, target \in NameTexts :
        \A a \in characters, b \in characters :
            (/\ ENABLED (can_recruit_query(recruiter, target) /\ recruit_out'.recruiter = a)
             /\ ENABLED (can_recruit_query(recruiter, target) /\ recruit_out'.recruiter = b))
                => a = b

\* The answers can_recruit gives for a resolved pair over the table.
CanRecruitKinds(recruiter_match, target_match) ==
    {can_recruit_answer(recruiter_match, target_match, positive, blocked).kind :
        positive \in fetchall(RelationshipTypesOf(recruiter_match, target_match, "positive")),
        blocked \in fetchall(RelationshipTypesOf(target_match, recruiter_match, "negative"))}
Listed(list) == {list[i][1] : i \in 1..Len(list)}

\* C28: who_can_recruit and can_recruit agree on permission: for every
\* character X that who_can_recruit(t) lists under CAN RECRUIT,
\* can_recruit(X, t) returns YES.
C28_ListedCanRecruit ==
    recruit_out.kind = "who_can_recruit" =>
        \A X \in Listed(recruit_out.can_recruit) :
            CanRecruitKinds(X, recruit_out.target) = {"YES"}

\* C29: who_can_recruit and can_recruit agree on blocking: X is listed
\* under CANNOT RECRUIT by who_can_recruit(t) if and only if
\* can_recruit(X, t) returns NO.
C29_ListedCannotRecruit ==
    recruit_out.kind = "who_can_recruit" =>
        \A X \in characters :
            /\ X \in Listed(recruit_out.cannot_recruit) =>
                   CanRecruitKinds(X, recruit_out.target) = {"NO"}
            /\ X \notin Listed(recruit_out.cannot_recruit) =>
                   "NO" \notin CanRecruitKinds(X, recruit_out.target)

\* The target dislikes a character that likes the target, and another
\* character is not listed.
C29_Witness ==
    /\ recruit_out.kind = "who_can_recruit"
    /\ \E X \in Listed(recruit_out.cannot_recruit) :
           PositiveFrom(X, recruit_out.target) # {}
    /\ \E X \in characters :
           X # recruit_out.target /\ X \notin Listed(recruit_out.cannot_recruit)

\* ------------------------------------------------------------ search claims
\* C6: a search returns at most 15 rows; when the ranked tier yields a row
\* the rows are the ranked tier's, best rank first, and the substring tier
\* is not run; the substring tier is run exactly when the ranked tier
\* yields no row or fails, and its rows are at most 15 too.
C6_TwoTier ==
    search_call.name = "search_manual" =>
        LET query == search_call.query
            ranked == IF MatchRaises(query) THEN <<>> ELSE RankedTier(query)
        IN /\ Len(search_out.rows) <= PageLimit
           /\ ranked # <<>> =>
                  /\ search_out.rows = ranked
                  /\ \A i, j \in 1..Len(ranked) : i < j => bm25(ranked[i]) <= bm25(ranked[j])
           /\ search_out.substring <=> ranked = <<>>

\* ------------------------------------------------------- conversation claims
ToolResultsOf(message) == SelectSeq(message.content, LAMBDA b : b.type = "tool_result")

\* C11: when a user message is appended after a response that requests k
\* tool calls, it holds exactly k tool results, the i-th with the id of the
\* i-th requested call, and the i-th result collected is the dispatcher's
\* output for that call's name and arguments.
C11_ResultsInOrder ==
    [][(messages # <<>> /\ Len(messages') > Len(messages)
            /\ messages'[Len(messages')].role = "user") =>
        LET k == Len(response.content)
            held == ToolResultsOf(messages'[Len(messages')])
        IN /\ response.stop_reason = "tool_use"
           /\ Len(held) = k /\ Len(tool_results') = k
           /\ \A i \in 1..k :
                /\ held[i].tool_use_id = <<response.n, i>>
                /\ tool_results'[i].tool_use_id = <<response.n, i>>
                /\ tool_results'[i].content =
                       execute_tool(response.content[i].name, response.content[i].input)
           /\ messages'[Len(messages') - 1] = AssistantMessage(response)]_vars

\* A user message holding the results of two different calls, a search and a
\* call of an unknown tool, in the order they were requested.
C11_Witness ==
    /\ messages # <<>> /\ messages[Len(messages)].role = "user"
    /\ Len(ToolResultsOf(messages[Len(messages)])) = 2
    /\ Len(tool_results) = 2
    /\ tool_results[1].name = "search_manual" /\ tool_results[2].name = "get_weather"
    /\ tool_results[1].content.op = "search_manual_db"
    /\ tool_results[2].content.op = "none"

\* C12: the number of turns in which requested tools are dispatched never
\* exceeds the profile's round ceiling, the forced finalization included.
C12_ToolRoundsWithinCeiling == tool_rounds <= Ceiling(profile)

\* ------------------------------------------------------------ failure claims
\* C13: a job whose exchange with the service failed has the status error
\* with the failure's message; its worker does nothing more, and the job id
\* is never pending, running or complete afterwards.
C13_FailureIsFinal ==
    [][ /\ \A w \in Workers :
            workers[w].pc = "done" => workers'[w] = workers[w]
        /\ \A id \in JobIds :
            (search_jobs[id].status = "error" /\ search_jobs[id].payload.msg = "upstream") =>
                search_jobs'[id] \in {search_jobs[id], Absent} ]_vars

\* C14: every submitted job reaches a terminal state: a worker that has not
\* made its terminal write always has a next step, also when the service
\* does not answer.
C14_EveryJobEnds ==
    \A w \in Started : workers[w].pc = "done" \/ ENABLED run_search_job(w)

\* C15: every variant of the loop ends after a bounded number of exchanges
\* whatever the service answers: none makes more exchanges than the largest
\* ceiling in the source allows, first and forced exchange included.
C15_EveryVariantBounded == exchanges <= BackgroundRounds + 2

\* ------------------------------------------------------------- frame claims
\* C16: a status call on an absent id answers NotFound and changes nothing;
\* a status call on a pending or running job answers that status alone and
\* changes nothing; no step removes a pending or running record, so polls
\* made before the terminal write neither remove the job nor lose its result.
C16_PollsLeaveJob ==
    [][ /\ \A c \in Clients :
            (clients[c].pc \in {"idle", "done"} /\ clients'[c] # clients[c]
                /\ clients'[c].pc = "done" /\ clients'[c].resp.code = 404) =>
                /\ search_jobs[clients'[c].job_id] = Absent
                /\ search_jobs' = search_jobs
        /\ \A c \in Clients :
            (clients[c].pc = "lookup" /\ clients'[c].pc = "done"
                /\ clients'[c].resp.code = 200) =>
                /\ clients'[c].resp.status \in {"pending", "running"}
                /\ clients'[c].resp.payload = NoPayload
                /\ search_jobs' = search_jobs
        /\ \A id \in JobIds :
            search_jobs[id].status \in {"pending", "running"} =>
                search_jobs'[id] # Absent ]_vars

\* ---------------------------------------------------------- retrieval claims
\* C17: show_page(n) returns the content and the section tag of the page
\* numbered n for every n from 1 to the last page, and for every other n,
\* 0 and last + 1 included, NotFound naming the valid range.
C17_ShowPage ==
    search_call.name = "show_page" =>
        LET n == search_call.page_number IN
        IF n \in 1..LastPage
        THEN /\ search_out.kind = "page" /\ search_out.rows = <<n>>
             /\ search_out.content = manual_pages[n]
             /\ search_out.section_type = SectionType(n)
        ELSE /\ search_out.kind = "not_found"
             /\ search_out.valid = <<1, LastPage>>

\* C18: for a section name outside the five valid ones filter_by_section
\* returns a Validation error listing exactly the five names and runs
\* neither search tier.
C18_InvalidSection ==
    (search_call.name = "filter_by_section"
        /\ search_call.section \notin {valid_sections[i] : i \in 1..Len(valid_sections)}) =>
        /\ search_out.kind = "invalid_section"
        /\ search_out.valid = valid_sections
        /\ ~search_out.ranked /\ ~search_out.substring

\* C19: when the ranked SELECT fails, search_manual and filter_by_section
\* run the substring tier and return its rows or the no-results text, never
\* an error.
C19_RankedFailureRecovered ==
    (search_call.name \in {"search_manual", "filter_by_section"}
        /\ MatchRaises(search_call.query)
        /\ search_out.kind # "invalid_section") =>
        /\ search_out.kind \in {"found", "no_results"}
        /\ LongWords(search_call.query) # <<>> => search_out.substring

\* The part occurs in the word, character by character.
HasPart(word, part) ==
    \/ word = part
    \/ word = "snowmobile" /\ part = "snow"

\* C25: whenever the substring tier of search_manual runs it returns the
\* (at most 15) lowest-numbered pages, in ascending page order, whose
\* content contains a query word longer than 2 characters; with no such
\* word or no such page the result is the no-results text.
C25_SubstringTierRows ==
    (search_call.name = "search_manual" /\ search_call.server = "api") =>
        LET words == LongWords(search_call.query)
            pages == {p \in Pages : \E i \in 1..Len(words) : HasPart(manual_pages[p], words[i])}
            rows == search_out.rows
        IN /\ search_out.substring =>
                /\ Range(rows) \subseteq pages
                /\ Len(rows) = IF Cardinality(pages) <= PageLimit
                               THEN Cardinality(pages) ELSE PageLimit
                /\ \A i \in 1..Len(rows) : \A j \in 1..Len(rows) : i < j => rows[i] < rows[j]
                /\ \A p \in pages \ Range(rows) : \A i \in 1..Len(rows) : rows[i] < p
                /\ pages = {} => search_out.kind = "no_results"
           /\ (words = <<>> /\ ~search_out.substring /\ search_out.kind # "found") =>
                search_out.kind = "no_results"

\* C27: a submission never takes the id of a job that is in the job table:
\* the id it allocates is absent from the table, and no worker that has
\* not finished holds it.
C27_FreshId ==
    [][\A w \in Workers :
          (workers[w].pc = "unborn" /\ workers'[w].pc # "unborn") =>
              /\ search_jobs[workers'[w].job_id] = Absent
              /\ \A x \in Started :
                     workers[x].pc # "done" => workers[x].job_id # workers'[w].job_id]_vars

\* ----------------------------------------------------- conversation claims
\* The ids a message requests, and the ids a message answers.
IdsRequested(message) == {message.content[i].id : i \in 1..Len(message.content)}
IdsAnswered(message) == {b.tool_use_id : b \in Range(ToolResultsOf(message))}

\* The conversation as it is sent: it starts with the user's query, user
\* and assistant messages alternate, it ends with a user message, and each
\* assistant message's requests are answered, id by id, in the user
\* message that follows it.
WellFormed(conversation) ==
    /\ conversation # <<>>
    /\ conversation[1] = [role |-> "user", content |-> <<[type |-> "text", text |-> "query"]>>]
    /\ \A m \in 1..Len(conversation) :
          conversation[m].role = IF m % 2 = 1 THEN "user" ELSE "assistant"
    /\ conversation[Len(conversation)].role = "user"
    /\ \A m \in 1..(Len(conversation) - 1) :
          conversation[m].role = "assistant" =>
              /\ IdsAnswered(conversation[m + 1]) = IdsRequested(conversation[m])
              /\ Len(ToolResultsOf(conversation[m + 1])) = Len(conversation[m].content)

\* C30: at every exchange sent to the reasoning service the conversation
\* starts with the user's query and strictly alternates user and assistant
\* messages, every tool request of an assistant message is answered by a
\* tool result with the same id in the user message that follows it, and
\* no message of the conversation is ever altered or removed.
C30_ConversationWellFormed ==
    [][/\ exchanges' > exchanges => WellFormed(messages')
       /\ Len(messages') >= Len(messages)
       /\ SubSeq(messages', 1, Len(messages)) = messages]_vars

\* The third exchange of a conversation whose first round answered two
\* requests.
C30_Witness ==
    /\ exchanges = 3 /\ Len(messages) = 5
    /\ Len(ToolResultsOf(messages[3])) = 2
    /\ Len(ToolResultsOf(messages[5])) = 1

\* ------------------------------------------------- structured result claims
\* The positions of the citation markers of a text, in text order.
RECURSIVE Citations(_, _)
Citations(text, i) ==
    IF i > Len(text) THEN <<>>
    ELSE (IF page_pattern(text[i]) THEN <<i>> ELSE <<>>) \o Citations(text, i + 1)

\* C26: the payload holds one entry per citation marker of the final text,
\* in text order, whose excerpt is the text from that marker to the next
\* citation marker or to the end of the text; the raw text is returned
\* exactly when there is no citation marker, and never with an entry.
C26_OneEntryPerCitation ==
    result.parsed =>
        LET at == Citations(final_text, 1)
            next(k) == IF k < Len(at) THEN at[k + 1] ELSE Len(final_text) + 1
        IN /\ Len(result.results) = Len(at)
           /\ \A k \in 1..Len(at) :
                /\ result.results[k].page_number = page_number(final_text[at[k]])
                /\ result.results[k].section = section(final_text[at[k]])
                /\ result.results[k].content = SubSeq(final_text, at[k] + 1, next(k) - 1)
           /\ (result.raw_response # None) <=> (at = <<>>)
           /\ at = <<>> => result.raw_response = final_text

====
